---- MODULE Spec2Model ----
(***************************************************************************)
(* Model of the command orchestration pipeline (DefaultCommandRunner,      *)
(* server/events/command_runner.go) and of the lock inspection / deletion  *)
(* surface (LocksController, server/locks_controller.go).                  *)
(*                                                                         *)
(* Every call made to an external collaborator is appended to a call log,  *)
(* so that the properties can speak about which calls were made, with      *)
(* which arguments, in which order and with which outcome.                 *)
(***************************************************************************)
EXTENDS Integers, Sequences, FiniteSets, TLC

(* ----------------------------- bounds ---------------------------------- *)
MaxUnits == 2           \* longest unit list BuildAutoplanCommands returns

(* --------------------------- value domains ----------------------------- *)
Owners == {"o1", "o2"}
BaseOwner == "o1"                        \* the owner of the base repository
HostTypes == {"Github", "Gitlab", "Other"}
PullStates == {"Open", "Closed"}
CommandNames == {"Plan", "Apply", "Other"}
Payloads == {"p1", "p2"}                 \* values carried by a panic
Errs == {"e1"}                           \* non-nil error values
RunnerResults == {"success", "failure"}  \* ProjectCommandResult: ok or Error/Failure set
Units == {[RepoRelDir |-> "d1", Workspace |-> "w1"],
          [RepoRelDir |-> "d2", Workspace |-> "w2"]}

RECURSIVE SeqsUpTo(_, _)
SeqsUpTo(S, n) ==
    IF n = 0 THEN {<<>>}
    ELSE LET shorter == SeqsUpTo(S, n - 1)
         IN  shorter \cup {Append(s, x) : s \in {t \in shorter : Len(t) = n - 1}, x \in S}

VARIABLES
    c,            \* the DefaultCommandRunner: its configuration fields
    pc,           \* position of the current invocation
    entry,        \* "autoplan" | "comment" | "none"
    baseRepo,     \* ctx.BaseRepo (owner and VCS host type)
    headRepo,     \* ctx.HeadRepo (owner; "" is the zero Repo)
    pull,         \* ctx.Pull (state)
    cmd,          \* the *CommentCommand of a comment invocation
    projectCmds,  \* the units the builder returned
    results,      \* the ProjectResults collected so far
    res,          \* the CommandResult handed to updatePull
    panicVal,     \* the value recover() returned, "none" if the invocation did not panic
    calls,        \* the collaborator calls of the current invocation, in order
    history       \* the lines the invocation's logger accumulated (HistoryHandler)

runnerVars == <<c, pc, entry, baseRepo, headRepo, pull, cmd, projectCmds,
                results, res, panicVal, calls, history>>

VARIABLES
    store,        \* the LockManager's backing store: the set of locks held
    wdLocks,      \* the WorkingDirLocker: the (repo, workspace, pull) triples locked
    workdirs,     \* the working directories on disk, one per triple
    req           \* the HTTP requests being served by the LocksController

lockVars == <<store, wdLocks, workdirs, req>>

vars == <<runnerVars, lockVars>>

Call(svc, op, arg, out, ret) ==
    [svc |-> svc, op |-> op, arg |-> arg, out |-> out, ret |-> ret]

NoCmd == [Name |-> "none", RepoRelDir |-> "", Workspace |-> "", Verbose |-> FALSE]
NoResult == [Error |-> "nil", ProjectResults |-> <<>>]

\* recovery.Stack(3): a bounded-depth, non-empty stack trace.
Stack(skip) == <<"frame">>

\* command.CommandName(): AutoplanCommand is always a plan.
CommandName == IF entry = "autoplan" THEN "Plan" ELSE cmd.Name
\* command.IsAutoplan()
IsAutoplan == entry = "autoplan"
\* command.IsVerbose(): the comment's flag; an autoplan is never verbose.
IsVerbose == IF entry = "autoplan" THEN FALSE ELSE cmd.Verbose

\* A line written to ctx.Logger, which buildLogger (lines 212-217) wraps in a
\* HistoryHandler: every line is also kept in the invocation's history.
Log(lvl, msg) == [lvl |-> lvl, msg |-> msg]
\* Lines 89, 150 and 244.
StatusWarning == Log("warn", "unable to update commit status")

(* ------------------------- DefaultCommandRunner ------------------------ *)

\* A call made after `defer c.logPanics(ctx)` panics: the deferred logPanics runs.
PanicsTo(svc, op, arg, target) ==
    \E p \in Payloads :
        /\ calls' = Append(calls, Call(svc, op, arg, "panic", p))
        /\ panicVal' = p
        /\ pc' = target

FreshInvocation ==
    /\ pc \in {"idle", "done", "escaped"}
    /\ projectCmds' = <<>>
    /\ results' = <<>>
    /\ res' = NoResult
    /\ panicVal' = "none"
    /\ calls' = <<>>
    /\ history' = <<>>
    /\ UNCHANGED <<c, lockVars>>

\* RunAutoplanCommand, lines 75-84: the caller supplies the repos and the pull;
\* the context is built and logPanics is deferred before anything else runs.
RunAutoplanCommand ==
    /\ FreshInvocation
    /\ entry' = "autoplan"
    /\ cmd' = NoCmd
    /\ \E h \in Owners, s \in PullStates :
         /\ baseRepo' = [Owner |-> BaseOwner, Type |-> "Github"]
         /\ headRepo' = [Owner |-> h]
         /\ pull' = [State |-> s]
    /\ pc' = "validate"

\* RunCommentCommand, lines 115-121: maybeHeadRepo may be nil (the zero Repo).
RunCommentCommand ==
    /\ FreshInvocation
    /\ entry' = "comment"
    /\ \E t \in HostTypes, h \in Owners \cup {""}, n \in CommandNames, u \in Units,
          v \in BOOLEAN :
         /\ baseRepo' = [Owner |-> BaseOwner, Type |-> t]
         /\ headRepo' = [Owner |-> h]
         /\ cmd' = [Name |-> n, RepoRelDir |-> u.RepoRelDir, Workspace |-> u.Workspace,
                    Verbose |-> v]
    /\ pull' = [State |-> ""]
    /\ pc' = "resolve"

\* A step of pull resolution returned error e: logged, return (lines 132-135).
ResolveFails(e) ==
    /\ pc' = "done"
    /\ history' = Append(history, Log("error", e))
    /\ UNCHANGED <<headRepo, pull, panicVal>>

\* getGithubData, lines 185-198.
getGithubData ==
    \/ /\ ~c.GithubPullGetter
       /\ ResolveFails("github not configured")
       /\ UNCHANGED calls
    \/ /\ c.GithubPullGetter
       /\ \/ /\ calls' = Append(calls, Call("getter", "GetPullRequest", "", "err", "e1"))
             /\ ResolveFails("e1")
          \/ /\ PanicsTo("getter", "GetPullRequest", "", "escaped")
             /\ UNCHANGED <<headRepo, pull, history>>
          \/ LET got == Append(calls, Call("getter", "GetPullRequest", "", "ok", ""))
             IN  \/ /\ calls' = Append(got, Call("parser", "ParseGithubPull", "", "err", "e1"))
                    /\ ResolveFails("e1")
                 \/ \E p \in Payloads :
                       /\ calls' = Append(got, Call("parser", "ParseGithubPull", "", "panic", p))
                       /\ panicVal' = p
                       /\ pc' = "escaped"
                       /\ UNCHANGED <<headRepo, pull, history>>
                 \/ \E h \in Owners, s \in PullStates :
                       /\ calls' = Append(got, Call("parser", "ParseGithubPull", "", "ok", ""))
                       /\ headRepo' = [Owner |-> h]
                       /\ pull' = [State |-> s]
                       /\ pc' = "validate"
                       /\ UNCHANGED <<panicVal, history>>

\* getGitlabData, lines 200-210: the head repo stays the one the caller gave.
getGitlabData ==
    \/ /\ ~c.GitlabMergeRequestGetter
       /\ ResolveFails("gitlab not configured")
       /\ UNCHANGED calls
    \/ /\ c.GitlabMergeRequestGetter
       /\ \/ /\ calls' = Append(calls, Call("getter", "GetMergeRequest", "", "err", "e1"))
             /\ ResolveFails("e1")
          \/ /\ PanicsTo("getter", "GetMergeRequest", "", "escaped")
             /\ UNCHANGED <<headRepo, pull, history>>
          \/ LET got == Append(calls, Call("getter", "GetMergeRequest", "", "ok", ""))
             IN  \/ \E p \in Payloads :
                       /\ calls' = Append(got, Call("parser", "ParseGitlabMergeRequest", "", "panic", p))
                       /\ panicVal' = p
                       /\ pc' = "escaped"
                       /\ UNCHANGED <<headRepo, pull, history>>
                 \/ \E s \in PullStates :
                       /\ calls' = Append(got, Call("parser", "ParseGitlabMergeRequest", "", "ok", ""))
                       /\ pull' = [State |-> s]
                       /\ pc' = "validate"
                       /\ UNCHANGED <<headRepo, panicVal, history>>

\* RunCommentCommand, lines 122-143: resolve the pull from the VCS host.  This
\* runs BEFORE logPanics is deferred (line 143), so a panic here is not recovered.
ResolvePull ==
    /\ pc = "resolve"
    /\ \/ baseRepo.Type = "Github" /\ getGithubData
       \/ baseRepo.Type = "Gitlab" /\ getGitlabData
       \/ /\ baseRepo.Type \notin {"Github", "Gitlab"}
          /\ ResolveFails("unknown VCS type")
          /\ UNCHANGED calls
    /\ UNCHANGED lockVars
    /\ UNCHANGED <<c, entry, baseRepo, cmd, projectCmds, results, res>>

\* c.VCSClient.CreateComment(...) whose result is discarded (nolint: errcheck)
\* and after which the invocation returns.
CommentAndReturn(kind, body) ==
    \/ /\ \E out \in {"ok", "err"} :
            calls' = Append(calls, Call("vcs", "CreateComment",
                                        [kind |-> kind, body |-> body], out, ""))
       /\ pc' = "done"
       /\ UNCHANGED panicVal
    \/ PanicsTo("vcs", "CreateComment", [kind |-> kind, body |-> body], "recover")

\* The checks are made in the other order.
ValidationFailureClosedFirst ==
    IF pull.State # "Open" THEN "closed"
    ELSE IF ~c.AllowForkPRs /\ headRepo.Owner # baseRepo.Owner THEN "fork"
    ELSE "none"

\* validateCtxAndComment, lines 220 and 226: which check rejects the context.
ValidationFailure ==
    IF ~c.AllowForkPRs /\ headRepo.Owner # baseRepo.Owner THEN "fork"
    ELSE IF pull.State # "Open" THEN "closed"
    ELSE "none"

\* validateCtxAndComment, lines 219-232, and the callers' `return` on false.
validateCtxAndComment ==
    /\ pc = "validate"
    /\ IF ValidationFailure # "none"
       THEN /\ history' = Append(history, Log("info", ValidationFailure))
            /\ CommentAndReturn(ValidationFailure, "")
       ELSE /\ pc' = "pending"
            /\ UNCHANGED <<calls, panicVal, history>>
    /\ UNCHANGED lockVars
    /\ UNCHANGED <<c, entry, baseRepo, headRepo, pull, cmd, projectCmds, results, res>>

\* The run is given up when the pending status cannot be set.
UpdatePendingAborts ==
    /\ pc = "pending"
    /\ \/ /\ calls' = Append(calls, Call("status", "Update",
                                          [state |-> "Pending", name |-> CommandName], "ok", ""))
          /\ pc' = "build"
          /\ UNCHANGED <<panicVal, history>>
       \/ /\ calls' = Append(calls, Call("status", "Update",
                                          [state |-> "Pending", name |-> CommandName], "err", ""))
          /\ history' = Append(history, StatusWarning)
          /\ pc' = "done"
          /\ UNCHANGED panicVal
       \/ /\ PanicsTo("status", "Update", [state |-> "Pending", name |-> CommandName],
                      "recover")
          /\ UNCHANGED history
    /\ UNCHANGED lockVars
    /\ UNCHANGED <<c, entry, baseRepo, headRepo, pull, cmd, projectCmds, results, res>>

\* CommitStatusUpdater.Update(..., vcs.Pending, name), lines 88-90 and 149-151:
\* an error is logged and the run goes on.
UpdatePending ==
    /\ pc = "pending"
    /\ \/ /\ \E out \in {"ok", "err"} :
               /\ calls' = Append(calls, Call("status", "Update",
                                              [state |-> "Pending", name |-> CommandName],
                                              out, ""))
               /\ history' = IF out = "err" THEN Append(history, StatusWarning) ELSE history
          /\ pc' = "build"
          /\ UNCHANGED panicVal
       \/ /\ PanicsTo("status", "Update", [state |-> "Pending", name |-> CommandName],
                      "recover")
          /\ UNCHANGED history
    /\ UNCHANGED lockVars
    /\ UNCHANGED <<c, entry, baseRepo, headRepo, pull, cmd, projectCmds, results, res>>

\* The builder method an invocation uses.
BuilderOp ==
    IF entry = "autoplan" THEN "BuildAutoplanCommands"
    ELSE IF cmd.Name = "Plan" THEN "BuildPlanCommand" ELSE "BuildApplyCommand"

\* What the builder may return without error: a list of units for an autoplan,
\* one unit for a comment command.
BuilderOutputs ==
    IF entry = "autoplan" THEN SeqsUpTo(Units, MaxUnits) ELSE {<<u>> : u \in Units}

\* The builder's error is lost.
ErrorResultDropsError(e) == [Error |-> "nil", ProjectResults |-> <<>>]

\* CommandResult{Error: err}, lines 94, 158 and 165.
ErrorResult(e) == [Error |-> e, ProjectResults |-> <<>>]

\* Lines 92-96 (autoplan) and 153-172 (comment command): call the builder.
\* A builder error goes to updatePull with CommandResult{Error: err}; a command
\* that is neither plan nor apply is logged and the invocation returns.
BuildCommands ==
    /\ pc = "build"
    /\ \/ /\ entry = "comment" /\ cmd.Name \notin {"Plan", "Apply"}
          /\ history' = Append(history, Log("error", "failed to determine desired command"))
          /\ pc' = "done"
          /\ UNCHANGED <<calls, projectCmds, res, panicVal>>
       \/ /\ entry = "autoplan" \/ cmd.Name \in {"Plan", "Apply"}
          /\ UNCHANGED history
          /\ \/ \E e \in Errs :
                  /\ calls' = Append(calls, Call("builder", BuilderOp, "", "err", e))
                  /\ res' = ErrorResult(e)
                  /\ pc' = "status"
                  /\ UNCHANGED <<projectCmds, panicVal>>
             \/ /\ PanicsTo("builder", BuilderOp, "", "recover")
                /\ UNCHANGED <<projectCmds, res>>
             \/ \E us \in BuilderOutputs :
                  /\ calls' = Append(calls, Call("builder", BuilderOp, "", "ok", us))
                  /\ projectCmds' = us
                  /\ IF us = <<>>
                     THEN /\ res' = [Error |-> "nil", ProjectResults |-> <<>>]
                          /\ pc' = "status"
                     ELSE /\ res' = res
                          /\ pc' = "run"
                  /\ UNCHANGED panicVal
    /\ UNCHANGED lockVars
    /\ UNCHANGED <<c, entry, baseRepo, headRepo, pull, cmd, results>>

\* The ProjectResult built from a unit's ProjectCommandResult: lines 101-105
\* (autoplan: the unit's dir and workspace) and 178-182 (comment command: the
\* command's dir and workspace).
ProjectResult(r, unit) ==
    IF entry = "autoplan"
    THEN [ProjectCommandResult |-> r, RepoRelDir |-> unit.RepoRelDir,
          Workspace |-> unit.Workspace]
    ELSE [ProjectCommandResult |-> r, RepoRelDir |-> cmd.RepoRelDir,
          Workspace |-> cmd.Workspace]

\* The runner method: Plan for an autoplan or a plan comment, Apply otherwise.
RunnerOp == IF CommandName = "Apply" THEN "Apply" ELSE "Plan"

\* The loop stops at the first unit whose result is a failure.
RunProjectCmdStopsOnFailure ==
    /\ pc = "run"
    /\ Len(results) < Len(projectCmds)
    /\ LET unit == projectCmds[Len(results) + 1]
       IN  \/ \E r \in RunnerResults :
                 /\ calls' = Append(calls, Call("runner", RunnerOp, unit, "ok", r))
                 /\ results' = Append(results, ProjectResult(r, unit))
                 /\ IF Len(results') = Len(projectCmds) \/ r = "failure"
                    THEN /\ res' = [Error |-> "nil", ProjectResults |-> results']
                         /\ pc' = "status"
                    ELSE /\ res' = res
                         /\ pc' = "run"
                 /\ UNCHANGED panicVal
           \/ /\ PanicsTo("runner", RunnerOp, unit, "recover")
              /\ UNCHANGED <<results, res>>
    /\ UNCHANGED lockVars
    /\ UNCHANGED <<c, entry, baseRepo, headRepo, pull, cmd, projectCmds, history>>

\* The commit status is reported inside the loop, after each unit.
RunProjectCmdReportsEachUnit ==
    /\ pc = "run"
    /\ Len(results) < Len(projectCmds)
    /\ LET unit == projectCmds[Len(results) + 1]
       IN  \/ \E r \in RunnerResults :
                 /\ results' = Append(results, ProjectResult(r, unit))
                 /\ calls' = calls \o
                      <<Call("runner", RunnerOp, unit, "ok", r),
                        Call("status", "UpdateProjectResult",
                             [name |-> CommandName,
                              res |-> [Error |-> "nil", ProjectResults |-> results']],
                             "ok", "")>>
                 /\ IF Len(results') = Len(projectCmds)
                    THEN /\ res' = [Error |-> "nil", ProjectResults |-> results']
                         /\ pc' = "render"
                    ELSE /\ res' = res
                         /\ pc' = "run"
                 /\ UNCHANGED panicVal
           \/ /\ PanicsTo("runner", RunnerOp, unit, "recover")
              /\ UNCHANGED <<results, res>>
    /\ UNCHANGED lockVars
    /\ UNCHANGED <<c, entry, baseRepo, headRepo, pull, cmd, projectCmds, history>>

\* One iteration of the loop of lines 99-106, or the single call of line 161 / 168:
\* run the next unit and collect its result, whatever it is.
RunProjectCmd ==
    /\ pc = "run"
    /\ Len(results) < Len(projectCmds)
    /\ LET unit == projectCmds[Len(results) + 1]
       IN  \/ \E r \in RunnerResults :
                 /\ calls' = Append(calls, Call("runner", RunnerOp, unit, "ok", r))
                 /\ results' = Append(results, ProjectResult(r, unit))
                 /\ IF Len(results') = Len(projectCmds)
                    THEN /\ res' = [Error |-> "nil", ProjectResults |-> results']
                         /\ pc' = "status"
                    ELSE /\ res' = res
                         /\ pc' = "run"
                 /\ UNCHANGED panicVal
           \/ /\ PanicsTo("runner", RunnerOp, unit, "recover")
              /\ UNCHANGED <<results, res>>
    /\ UNCHANGED lockVars
    /\ UNCHANGED <<c, entry, baseRepo, headRepo, pull, cmd, projectCmds, history>>

\* updatePull, lines 235-240: the run's fatal error is logged first.  The
\* Failure of a CommandResult is never set by this code, so line 239 logs nothing.
ErrorLogged == IF res.Error # "nil" THEN Append(history, Log("error", res.Error)) ELSE history

\* updatePull, lines 234-245: CommitStatusUpdater.UpdateProjectResult; an error
\* is logged and the function goes on.
UpdateProjectResult ==
    /\ pc = "status"
    /\ \/ /\ \E out \in {"ok", "err"} :
               /\ calls' = Append(calls, Call("status", "UpdateProjectResult",
                                              [name |-> CommandName, res |-> res], out, ""))
               /\ history' = IF out = "err" THEN Append(ErrorLogged, StatusWarning)
                                             ELSE ErrorLogged
          /\ pc' = "render"
          /\ UNCHANGED panicVal
       \/ /\ PanicsTo("status", "UpdateProjectResult", [name |-> CommandName, res |-> res],
                      "recover")
          /\ history' = ErrorLogged
    /\ UNCHANGED lockVars
    /\ UNCHANGED <<c, entry, baseRepo, headRepo, pull, cmd, projectCmds, results, res>>

\* MarkdownRenderer.Render(res, name, history, verbose, autoplan), line 250: the
\* text is modelled by the five arguments that determine it.
Rendered ==
    [res |-> res, name |-> CommandName, history |-> history, verbose |-> IsVerbose,
     autoplan |-> IsAutoplan]

\* updatePull, lines 246-250: the logger built by buildLogger (lines 212-217)
\* always carries a HistoryHandler, so the cast succeeds and Render is called.
Render ==
    /\ pc = "render"
    /\ \/ /\ calls' = Append(calls, Call("renderer", "Render", Rendered, "ok", Rendered))
          /\ pc' = "post"
          /\ UNCHANGED panicVal
       \/ PanicsTo("renderer", "Render", Rendered, "recover")
    /\ UNCHANGED lockVars
    /\ UNCHANGED <<c, entry, baseRepo, headRepo, pull, cmd, projectCmds, results, res,
                   history>>

\* logPanics comments although recover() returned nil.
PostResultThenPanicComment ==
    /\ pc = "post"
    /\ \E out \in {"ok", "err"} :
         calls' = Append(calls, Call("vcs", "CreateComment",
                                     [kind |-> "result", body |-> calls[Len(calls)].ret],
                                     out, ""))
    /\ pc' = "recover"
    /\ UNCHANGED lockVars
    /\ UNCHANGED <<c, entry, baseRepo, headRepo, pull, cmd, projectCmds, results, res,
                   panicVal, history>>

\* updatePull, line 251: post the rendered comment; the error is discarded.
PostResult ==
    /\ pc = "post"
    /\ CommentAndReturn("result", calls[Len(calls)].ret)
    /\ UNCHANGED lockVars
    /\ UNCHANGED <<c, entry, baseRepo, headRepo, pull, cmd, projectCmds, results, res,
                   history>>

\* The comment does not carry the value recover() returned.
PanicCommentWithoutPayload(v) ==
    [kind |-> "panic", body |-> [payload |-> "", stack |-> Stack(3)]]

\* The comment logPanics posts, lines 258-260: the panic value and the stack.
PanicComment(v) ==
    [kind |-> "panic", body |-> [payload |-> v, stack |-> Stack(3)]]

\* The panic is recovered and logged, but nothing is commented.
logPanicsSilent ==
    /\ pc = "recover"
    /\ pc' = "done"
    /\ history' = Append(history, Log("error", panicVal))
    /\ UNCHANGED lockVars
    /\ UNCHANGED <<c, entry, baseRepo, headRepo, pull, cmd, projectCmds, results,
                   res, panicVal, calls>>

\* The recovery reports a final commit status before it comments.
logPanicsUpdatesStatus ==
    /\ pc = "recover"
    /\ \E out \in {"ok", "err"} :
         calls' = calls \o
             <<Call("status", "UpdateProjectResult",
                    [name |-> CommandName, res |-> ErrorResult(panicVal)], "ok", ""),
               Call("vcs", "CreateComment", PanicComment(panicVal), out, "")>>
    /\ pc' = "done"
    /\ history' = Append(history, Log("error", panicVal))
    /\ UNCHANGED lockVars
    /\ UNCHANGED <<c, entry, baseRepo, headRepo, pull, cmd, projectCmds, results,
                   res, panicVal>>

\* logPanics, lines 256-263: recover() returned the panic value; comment it
\* with the stack, then log it (line 261).  A panic of this CreateComment is
\* not recovered by anything.
logPanics ==
    /\ pc = "recover"
    /\ \/ /\ \E out \in {"ok", "err"} :
               calls' = Append(calls, Call("vcs", "CreateComment",
                                           PanicComment(panicVal), out, ""))
          /\ history' = Append(history, Log("error", panicVal))
          /\ pc' = "done"
       \/ /\ \E p \in Payloads :
               calls' = Append(calls, Call("vcs", "CreateComment",
                                           PanicComment(panicVal), "panic", p))
          /\ pc' = "escaped"
          /\ UNCHANGED history
    /\ UNCHANGED lockVars
    /\ UNCHANGED <<c, entry, baseRepo, headRepo, pull, cmd, projectCmds, results,
                   res, panicVal>>


(* --------------------------- LocksController --------------------------- *)

\* Strings of the HTTP layer are sequences of bytes.
Pct == 37       \* '%'
Plus == 43      \* '+'
Space == 32     \* ' '

IsHex(b) == b \in 48..57 \/ b \in 65..70 \/ b \in 97..102
UnHex(b) == IF b \in 48..57 THEN b - 48
            ELSE IF b \in 97..102 THEN b - 97 + 10
            ELSE b - 65 + 10

\* net/url unescape: "%XX" becomes the byte XX, a '%' not followed by two hex
\* digits is an error; in query mode '+' becomes a space.
RECURSIVE Unescape(_, _)
Unescape(s, query) ==
    IF s = <<>> THEN [ok |-> TRUE, val |-> <<>>]
    ELSE IF Head(s) = Pct
    THEN IF Len(s) < 3 \/ ~IsHex(s[2]) \/ ~IsHex(s[3])
         THEN [ok |-> FALSE, val |-> <<>>]
         ELSE LET rest == Unescape(SubSeq(s, 4, Len(s)), query)
              IN  [ok |-> rest.ok,
                   val |-> IF rest.ok THEN <<16 * UnHex(s[2]) + UnHex(s[3])>> \o rest.val
                           ELSE <<>>]
    ELSE LET rest == Unescape(Tail(s), query)
         IN  [ok |-> rest.ok,
              val |-> IF rest.ok
                      THEN <<IF query /\ Head(s) = Plus THEN Space ELSE Head(s)>> \o rest.val
                      ELSE <<>>]

\* The id is used as it came, whatever it holds.
PathUnescapeLenient(s) == [ok |-> TRUE, val |-> s]

\* url.PathUnescape(id), line 75, and url.QueryUnescape(id), line 36.
PathUnescape(s) == Unescape(s, FALSE)
QueryUnescape(s) == Unescape(s, TRUE)

Requests == {"r1", "r2"}
PullNums == {1, 2}
RepoFullName == "o/r"
Paths == {1, 2}                       \* project paths: "1" and "2"
LockWorkspace == "w"

\* The id of the lock of a project path: "a/1" and "a/2".
LockId(path) == <<97, 47, 48 + path>>

\* The ids requests carry: absent, empty, malformed ("%zz"), "a%2F1" and "a%2F2".
RequestVars ==
    {[ok |-> FALSE, id |-> <<>>]} \cup
    {[ok |-> TRUE, id |-> e] :
        e \in {<<>>, <<37, 122, 122>>, <<97, 37, 50, 70, 49>>, <<97, 37, 50, 70, 50>>}}

\* A lock of the store.  BaseRepo is the full name of Pull.BaseRepo; "" is the
\* zero Repo of a lock written before the field existed.
Lock(path, num, base) ==
    [id |-> LockId(path), Path |-> path, Workspace |-> LockWorkspace,
     Pull |-> [Num |-> num, BaseRepo |-> base]]

NoLock == [id |-> <<>>, Path |-> 0, Workspace |-> "", Pull |-> [Num |-> 0, BaseRepo |-> ""]]

\* The working-directory triple of a lock: line 94.
Triple(lock) ==
    [repo |-> lock.Pull.BaseRepo, workspace |-> lock.Workspace, num |-> lock.Pull.Num]

Triples == {[repo |-> RepoFullName, workspace |-> LockWorkspace, num |-> n] : n \in PullNums}

IdleRequest ==
    [pc |-> "idle", method |-> "", vars |-> [ok |-> FALSE, id |-> <<>>], lock |-> NoLock,
     held |-> FALSE, code |-> 0, calls |-> <<>>, locker |-> <<>>]

\* l.respond(w, lvl, code, ...): the handler writes the response and returns.
Respond(r, method, v, code) ==
    req' = [req EXCEPT ![r] = [IdleRequest EXCEPT !.pc = "done", !.method = method,
                                                  !.vars = v, !.code = code]]

\* The handler called the Locker (GetLock on line 41, Unlock on line 80), which
\* returned an error ("err"), no lock ("nil") or a lock ("ok"), and responds.
RespondAfter(r, method, v, code, lockerCall) ==
    req' = [req EXCEPT ![r] = [IdleRequest EXCEPT !.pc = "done", !.method = method,
                                                  !.vars = v, !.code = code,
                                                  !.locker = <<lockerCall>>]]

\* LockManager.TryLock(project, workspace, pull): one atomic test-and-set.
\* Acquired when the key is free or already held by the same pull.
LockerTryLock(st, path, num) ==
    LET holders == {l \in st : l.id = LockId(path)}
    IN  IF holders = {}
        THEN [store |-> st \cup {Lock(path, num, RepoFullName)}, acquired |-> TRUE,
              holder |-> num]
        ELSE LET h == CHOOSE l \in holders : TRUE
             IN  [store |-> st, acquired |-> h.Pull.Num = num, holder |-> h.Pull.Num]

\* A plan of pull num on a project path takes the logical lock.
TryLock ==
    /\ \E path \in Paths, num \in PullNums :
         store' = LockerTryLock(store, path, num).store
    /\ store' # store
    /\ UNCHANGED <<wdLocks, workdirs, req, runnerVars>>

\* LockManager.UnlockByPull(pull): the pull was merged or closed.
UnlockByPull ==
    /\ \E num \in PullNums :
         /\ \E l \in store : l.Pull.Num = num
         /\ store' = {l \in store : l.Pull.Num # num}
    /\ UNCHANGED <<wdLocks, workdirs, req, runnerVars>>

\* A plan checks the pull out for the workspace: it takes the working-directory
\* lock, which needs the triple to be free, writes the directory and releases.
Checkout ==
    /\ \E t \in Triples :
         /\ t \notin wdLocks
         /\ t \notin workdirs
         /\ workdirs' = workdirs \cup {t}
    /\ UNCHANGED <<store, wdLocks, req, runnerVars>>

\* GetLock, lines 29-64: GET /locks/{id}.
GetLock ==
    /\ \E r \in Requests, v \in RequestVars :
         /\ req[r].pc \in {"idle", "done"}
         /\ IF ~v.ok
            THEN Respond(r, "GET", v, 400)
            ELSE IF ~QueryUnescape(v.id).ok
            THEN Respond(r, "GET", v, 400)
            ELSE \/ RespondAfter(r, "GET", v, 500, "GetLock:err")
                 \/ LET found == {l \in store : l.id = QueryUnescape(v.id).val}
                    IN  IF found = {}
                        THEN RespondAfter(r, "GET", v, 404, "GetLock:nil")
                        ELSE RespondAfter(r, "GET", v, 200, "GetLock:ok")
    /\ UNCHANGED <<store, wdLocks, workdirs, runnerVars>>

\* The compatibility case is not recognised: every lock is cleaned up.
NeedsCleanupAlways(lock) == TRUE

\* Line 93: the working-directory cleanup and the comment are skipped only for
\* a lock whose pull has no base repository.
NeedsCleanup(lock) == lock.Pull.BaseRepo # ""

\* The nil lock is not recognised: the handler goes on to the comment.
DeleteNotFoundGoesOn(r, v) ==
    /\ req' = [req EXCEPT ![r] = [IdleRequest EXCEPT !.pc = "comment", !.method = "DELETE",
                                                      !.vars = v,
                                                      !.locker = <<"Unlock:nil">>]]
    /\ UNCHANGED store

\* DeleteLock, lines 85-88: Unlock returned no lock; respond 404 and return.
DeleteNotFound(r, v) ==
    /\ RespondAfter(r, "DELETE", v, 404, "Unlock:nil")
    /\ UNCHANGED store

\* The lock is looked up but left in the store.
DeleteFoundKeepsLock(r, v, l) ==
    /\ store' = store
    /\ req' = [req EXCEPT ![r] =
         [IdleRequest EXCEPT
            !.pc = IF NeedsCleanup(l) THEN "wd" ELSE "done",
            !.method = "DELETE", !.vars = v, !.lock = l,
            !.code = IF NeedsCleanup(l) THEN 0 ELSE 200,
            !.locker = <<"Unlock:ok">>]]

\* DeleteLock, lines 80 and 89-93, 111-114: Unlock removed lock l from the
\* store and returned it; a lock without base repository is answered 200 at once.
DeleteFound(r, v, l) ==
    /\ store' = store \ {l}
    /\ req' = [req EXCEPT ![r] =
         [IdleRequest EXCEPT
            !.pc = IF NeedsCleanup(l) THEN "wd" ELSE "done",
            !.method = "DELETE", !.vars = v, !.lock = l,
            !.code = IF NeedsCleanup(l) THEN 0 ELSE 200,
            !.locker = <<"Unlock:ok">>]]

\* DeleteLock, lines 68-93 and 111-114: DELETE /locks/{id} up to and including
\* Locker.Unlock, which removes the lock from the store atomically.
DeleteLock ==
    \E r \in Requests, v \in RequestVars :
        /\ req[r].pc \in {"idle", "done"}
        /\ IF ~v.ok \/ v.id = <<>>
           THEN Respond(r, "DELETE", v, 400) /\ UNCHANGED store
           ELSE IF ~PathUnescape(v.id).ok
           THEN Respond(r, "DELETE", v, 400) /\ UNCHANGED store
           ELSE \/ RespondAfter(r, "DELETE", v, 500, "Unlock:err") /\ UNCHANGED store
                \/ LET found == {l \in store : l.id = PathUnescape(v.id).val}
                   IN  IF found = {}
                       THEN DeleteNotFound(r, v)
                       ELSE \E l \in found : DeleteFound(r, v, l)
        /\ UNCHANGED <<wdLocks, workdirs, runnerVars>>

\* The directory is deleted although the working-directory lock was refused.
AfterTryLockErrorDeletes == "delete"

\* The handler gives up when the working-directory lock cannot be taken.
AfterTryLockErrorReturns == "done"

\* Lines 95-96 and 103: a TryLock error is logged and the handler goes on to
\* the comment.
AfterTryLockError == "comment"

\* DeleteLock, lines 94-98: WorkingDirLocker.TryLock.  An error is logged; on
\* success the release is deferred to the return of the handler.
DeleteLockTryLock ==
    \E r \in Requests :
        /\ req[r].pc = "wd"
        /\ LET t == Triple(req[r].lock)
           IN  IF t \in wdLocks
               THEN /\ req' = [req EXCEPT ![r].pc = AfterTryLockError,
                                          ![r].calls = Append(@, "TryLock:err")]
                    /\ UNCHANGED wdLocks
               ELSE /\ wdLocks' = wdLocks \cup {t}
                    /\ req' = [req EXCEPT ![r].pc = "delete", ![r].held = TRUE,
                                          ![r].calls = Append(@, "TryLock:ok")]
        /\ UNCHANGED <<store, workdirs, runnerVars>>

\* DeleteLock, lines 99-100: WorkingDir.DeleteForWorkspace; its error is only logged.
DeleteForWorkspace ==
    \E r \in Requests :
        /\ req[r].pc = "delete"
        /\ \/ /\ workdirs' = workdirs \ {Triple(req[r].lock)}
              /\ req' = [req EXCEPT ![r].pc = "comment",
                                    ![r].calls = Append(@, "DeleteForWorkspace:ok")]
           \/ /\ workdirs' = workdirs
              /\ req' = [req EXCEPT ![r].pc = "comment",
                                    ![r].calls = Append(@, "DeleteForWorkspace:err")]
        /\ UNCHANGED <<store, wdLocks, runnerVars>>

\* The removal is undone when the comment cannot be posted.
DeleteLockCommentRollsBack ==
    \E r \in Requests :
        /\ req[r].pc = "comment"
        /\ \/ /\ req' = [req EXCEPT ![r].pc = IF req[r].held THEN "return" ELSE "done",
                                    ![r].code = 200,
                                    ![r].calls = Append(@, "CreateComment:ok")]
              /\ UNCHANGED store
           \/ /\ req' = [req EXCEPT ![r].pc = IF req[r].held THEN "return" ELSE "done",
                                    ![r].code = 500,
                                    ![r].calls = Append(@, "CreateComment:err")]
              /\ store' = store \cup {req[r].lock}
        /\ UNCHANGED <<wdLocks, workdirs, runnerVars>>

\* The release is not deferred: it is skipped by the early return of line 109.
DeleteLockCommentLeaksOn500 ==
    \E r \in Requests :
        /\ req[r].pc = "comment"
        /\ \/ req' = [req EXCEPT ![r].pc = IF req[r].held THEN "return" ELSE "done",
                                 ![r].code = 200,
                                 ![r].calls = Append(@, "CreateComment:ok")]
           \/ req' = [req EXCEPT ![r].pc = "done",
                                 ![r].code = 500,
                                 ![r].calls = Append(@, "CreateComment:err")]
        /\ UNCHANGED <<store, wdLocks, workdirs, runnerVars>>

\* DeleteLock, lines 103-110 and 114: comment on the pull request; its failure
\* is the 500 response, otherwise the response is 200.  The handler then
\* returns, which runs the deferred release if there is one.
DeleteLockComment ==
    \E r \in Requests :
        /\ req[r].pc = "comment"
        /\ \/ req' = [req EXCEPT ![r].pc = IF req[r].held THEN "return" ELSE "done",
                                 ![r].code = 200,
                                 ![r].calls = Append(@, "CreateComment:ok")]
           \/ req' = [req EXCEPT ![r].pc = IF req[r].held THEN "return" ELSE "done",
                                 ![r].code = 500,
                                 ![r].calls = Append(@, "CreateComment:err")]
        /\ UNCHANGED <<store, wdLocks, workdirs, runnerVars>>

\* The handler puts the lock back when it answers 500.
DeleteLockReturnRestores ==
    \E r \in Requests :
        /\ req[r].pc = "return"
        /\ wdLocks' = wdLocks \ {Triple(req[r].lock)}
        /\ req' = [req EXCEPT ![r].pc = "done", ![r].held = FALSE]
        /\ store' = IF req[r].code = 500 THEN store \cup {req[r].lock} ELSE store
        /\ UNCHANGED <<workdirs, runnerVars>>

\* DeleteLock, line 98: `defer unlock()` runs when the handler returns.
DeleteLockReturn ==
    \E r \in Requests :
        /\ req[r].pc = "return"
        /\ wdLocks' = wdLocks \ {Triple(req[r].lock)}
        /\ req' = [req EXCEPT ![r].pc = "done", ![r].held = FALSE]
        /\ UNCHANGED <<store, workdirs, runnerVars>>

\* The store a server starts with: empty, or one lock written by a version
\* that did not record the pull's base repository.
InitialStores == {{}, {Lock(1, 1, "")}}

LockInit ==
    /\ store \in InitialStores
    /\ wdLocks = {}
    /\ workdirs = {}
    /\ req = [r \in Requests |-> IdleRequest]

LockNext ==
    \/ TryLock
    \/ UnlockByPull
    \/ Checkout
    \/ GetLock
    \/ DeleteLock
    \/ DeleteLockTryLock
    \/ DeleteForWorkspace
    \/ DeleteLockComment
    \/ DeleteLockReturn

RunnerInit ==
    /\ c \in [AllowForkPRs : BOOLEAN, GithubPullGetter : BOOLEAN,
               GitlabMergeRequestGetter : BOOLEAN]
    /\ pc = "idle"
    /\ entry = "none"
    /\ baseRepo = [Owner |-> "", Type |-> ""]
    /\ headRepo = [Owner |-> ""]
    /\ pull = [State |-> ""]
    /\ cmd = NoCmd
    /\ projectCmds = <<>>
    /\ results = <<>>
    /\ res = NoResult
    /\ panicVal = "none"
    /\ calls = <<>>
    /\ history = <<>>

RunnerNext ==
    \/ RunAutoplanCommand
    \/ RunCommentCommand
    \/ ResolvePull
    \/ validateCtxAndComment
    \/ UpdatePending
    \/ BuildCommands
    \/ RunProjectCmd
    \/ UpdateProjectResult
    \/ Render
    \/ PostResult
    \/ logPanics

RunnerIdle ==
    /\ c = [AllowForkPRs |-> FALSE, GithubPullGetter |-> TRUE,
            GitlabMergeRequestGetter |-> TRUE]
    /\ pc = "idle"
    /\ entry = "none"
    /\ baseRepo = [Owner |-> "", Type |-> ""]
    /\ headRepo = [Owner |-> ""]
    /\ pull = [State |-> ""]
    /\ cmd = NoCmd
    /\ projectCmds = <<>>
    /\ results = <<>>
    /\ res = NoResult
    /\ panicVal = "none"
    /\ calls = <<>>
    /\ history = <<>>

LocksIdle ==
    /\ store = {}
    /\ wdLocks = {}
    /\ workdirs = {}
    /\ req = [r \in Requests |-> IdleRequest]

\* The command runner, with the locks controller at rest.
Init == RunnerInit /\ LocksIdle
Next == RunnerNext
Spec == Init /\ [][Next]_vars

\* The locks controller serving concurrent requests, with the command runner at rest.
LockSpecInit == RunnerIdle /\ LockInit
LockSpecNext == LockNext
LockSpec == LockSpecInit /\ [][LockSpecNext]_vars
(* ------------------------------ properties ----------------------------- *)

CallsOf(svc) == SelectSeq(calls, LAMBDA k : k.svc = svc)
Comments == CallsOf("vcs")
RunnerCalls == CallsOf("runner")
ProjectResultUpdates == SelectSeq(calls, LAMBDA k : k.op = "UpdateProjectResult")
IndexOf(op) == {i \in 1..Len(calls) : calls[i].op = op}

Terminal == pc \in {"done", "escaped"}
\* The invocation has a pull request: always for an autoplan, after a
\* successful resolution for a comment command.
Resolved == entry = "autoplan" \/ (entry = "comment" /\ pull.State # "")
ForkRejected == ~c.AllowForkPRs /\ headRepo.Owner # baseRepo.Owner
NotOpen == pull.State # "Open"
NoCommentPanicked == \A i \in 1..Len(Comments) : Comments[i].out # "panic"
RunnerPanics == {i \in 1..Len(calls) : calls[i].svc = "runner" /\ calls[i].out = "panic"}
BuilderErrors == {i \in 1..Len(calls) : calls[i].svc = "builder" /\ calls[i].out = "err"}

\* C1, as stated: whatever the outcome of an invocation, a panic of any
\* collaborator included, CreateComment is called at most once.
C1_AtMostOneCommentCall == Len(Comments) <= 1

\* C1, amended: CreateComment is called at most once per invocation, except
\* that when a CreateComment call itself panics logPanics calls it once more to
\* report that panic; never more than two calls, and a second call is the panic
\* report that follows a first call that panicked.
C1_SecondCommentOnlyAfterCommentPanic ==
    /\ Len(Comments) <= 2
    /\ Len(Comments) = 2 =>
         /\ Comments[1].out = "panic"
         /\ Comments[1].arg.kind # "panic"
         /\ Comments[2].arg.kind = "panic"

C1_Witness ==
    /\ pc = "done"
    /\ Len(Comments) = 2
    /\ Comments[1].arg.kind = "result"

\* The CreateComment calls that completed, with or without an error: a call
\* that panicked posted nothing the program knows of.
PostedComments == SelectSeq(Comments, LAMBDA k : k.out # "panic")

\* C2, as stated: an invocation that has a pull request returns having posted
\* exactly one comment, never zero.
C2_ExactlyOneComment == (pc = "done" /\ Resolved) => Len(PostedComments) = 1

\* C2, amended: an autoplan, or a comment command whose pull was resolved and
\* whose command is plan or apply, returns having posted exactly one comment;
\* it never ends without a CreateComment call.
C2_OneCommentForPlanOrApply ==
    (Resolved /\ CommandName \in {"Plan", "Apply"}) =>
        /\ pc = "done" => Len(PostedComments) = 1
        /\ Terminal => Len(Comments) >= 1

C2_Witness ==
    /\ pc = "done"
    /\ entry = "comment"
    /\ cmd.Name = "Apply"
    /\ Len(Comments) = 1
    /\ Comments[1].arg.kind = "result"

\* C3: no panic of a collaborator during pull resolution, validation, the
\* status updates, building, execution, rendering or posting reaches the caller.
C3_NoPanicReachesCaller == pc # "escaped"

\* C4: when the project command runner panics, the invocation makes exactly one
\* CreateComment call, which carries the panic value and a non-empty stack, no
\* result comment is posted, the panic is recovered when that comment returns,
\* and the next invocation starts from a fresh context on an unchanged runner.
C4_PanicComment ==
    (Terminal /\ RunnerPanics # {}) =>
        /\ Len(Comments) = 1
        /\ Comments[1].arg.kind = "panic"
        /\ \A i \in RunnerPanics : Comments[1].arg.body.payload = calls[i].ret
        /\ Comments[1].arg.body.stack # <<>>
        /\ Comments[1].out # "panic" => pc = "done"

C4_NextInvocationFresh ==
    (Terminal /\ pc' \notin {"done", "escaped"}) =>
        /\ c' = c
        /\ calls' = <<>>
        /\ results' = <<>>
        /\ projectCmds' = <<>>
        /\ res' = NoResult
        /\ panicVal' = "none"
        /\ history' = <<>>

C4_RunnerPanicIsReportedOnce == []C4_PanicComment /\ [][C4_NextInvocationFresh]_vars

C4_Witness ==
    /\ pc = "done"
    /\ RunnerPanics # {}
    /\ Len(RunnerCalls) = 2
    /\ Len(Comments) = 1

\* C5: when validation fails, exactly one explanatory comment is posted (the
\* fork comment when the fork check fails, also when the pull is not open as
\* well; the closed comment otherwise) and no commit status update, builder
\* call or runner call is made.
C5_ValidationFailure ==
    (pc \in {"recover", "done", "escaped"} /\ Resolved /\ (ForkRejected \/ NotOpen)) =>
        LET explained == SelectSeq(Comments, LAMBDA k : k.arg.kind \in {"fork", "closed"})
        IN  /\ Len(explained) = 1
            /\ Comments[1] = explained[1]
            /\ explained[1].arg.kind = IF ForkRejected THEN "fork" ELSE "closed"
            /\ \A i \in 1..Len(calls) : calls[i].svc \notin {"status", "builder", "runner"}

C5_Witness ==
    /\ pc = "done"
    /\ Resolved
    /\ ForkRejected
    /\ NotOpen
    /\ Len(Comments) = 1

NoPanic == \A i \in 1..Len(calls) : calls[i].out # "panic"

\* C6: when the builder returns an error the runner is never called, and the
\* error is reported through exactly one UpdateProjectResult call, which
\* carries it as the fatal Error, followed by exactly one comment: the
\* invocation returns with exactly one completed CreateComment call, which is
\* the rendered error unless a collaborator of updatePull panicked.
C6_BuilderErrorReportedOnce ==
    BuilderErrors # {} =>
        /\ RunnerCalls = <<>>
        /\ Terminal =>
             /\ Len(ProjectResultUpdates) = 1
             /\ \A i \in BuilderErrors :
                  ProjectResultUpdates[1].arg.res =
                      [Error |-> calls[i].ret, ProjectResults |-> <<>>]
             /\ \A i \in IndexOf("UpdateProjectResult"), j \in IndexOf("CreateComment") :
                  i < j
        /\ pc = "done" =>
             /\ Len(PostedComments) = 1
             /\ NoPanic =>
                  /\ Len(Comments) = 1
                  /\ Comments[1].arg.kind = "result"
                  /\ Comments[1].arg.body.res = ProjectResultUpdates[1].arg.res

C6_Witness ==
    /\ pc = "done"
    /\ BuilderErrors # {}
    /\ Len(Comments) = 1
    /\ Comments[1].arg.kind = "result"
    /\ Comments[1].arg.body.res.Error = "e1"

\* C7: in an autoplan, Plan is called once per unit in the builder's order,
\* the i-th result is the i-th unit's result with its directory and workspace,
\* and the reported list has one entry per unit whatever the results were.
C7_OnePlanPerUnitInOrder ==
    entry = "autoplan" =>
        /\ Len(RunnerCalls) <= Len(projectCmds)
        /\ \A i \in 1..Len(RunnerCalls) :
             /\ RunnerCalls[i].op = "Plan"
             /\ RunnerCalls[i].arg = projectCmds[i]
        /\ \A i \in 1..Len(results) :
             results[i] = [ProjectCommandResult |-> RunnerCalls[i].ret,
                           RepoRelDir |-> projectCmds[i].RepoRelDir,
                           Workspace |-> projectCmds[i].Workspace]
        /\ \A i \in 1..Len(ProjectResultUpdates) :
             ProjectResultUpdates[i].arg.res.Error = "nil" =>
                /\ ProjectResultUpdates[i].arg.res.ProjectResults = results
                /\ Len(results) = Len(projectCmds)
                /\ Len(RunnerCalls) = Len(projectCmds)

C7_Witness ==
    /\ pc = "done"
    /\ entry = "autoplan"
    /\ Len(projectCmds) = 2
    /\ projectCmds[1] # projectCmds[2]
    /\ Len(ProjectResultUpdates) = 1
    /\ Len(ProjectResultUpdates[1].arg.res.ProjectResults) = 2
    /\ results[1].ProjectCommandResult = "failure"

\* A step in which a commit status update returned an error.
StatusUpdateFailed ==
    /\ pc \in {"pending", "status"}
    /\ Len(calls') = Len(calls) + 1
    /\ calls'[Len(calls')].svc = "status"
    /\ calls'[Len(calls')].out = "err"

\* The result comments of the invocation.
ResultComments == SelectSeq(Comments, LAMBDA k : k.arg.kind = "result")

\* The log history Render gets when every status update succeeds: the run's
\* fatal error if there is one, nothing else.
HistoryOnSuccess == IF res.Error # "nil" THEN <<Log("error", res.Error)>> ELSE <<>>

FailedStatusCalls == {i \in 1..Len(calls) : calls[i].svc = "status" /\ calls[i].out = "err"}

\* C8, as stated: whether the status updates fail or not, the comment posted
\* is the one posted when they succeed.
C8_SameCommentAsOnSuccess ==
    \A i \in 1..Len(ResultComments) :
        ResultComments[i].arg.body =
            [res |-> res, name |-> CommandName, history |-> HistoryOnSuccess,
             verbose |-> IsVerbose, autoplan |-> IsAutoplan]

\* C8, amended: a status update that returns an error never aborts the run:
\* the invocation goes on to the step that follows a successful update (the
\* builder after the pending update, the renderer after the final one) with
\* the same command, units, results and command result, and only adds the
\* warning to the log history.  The comment is rendered from the same result,
\* command name, verbosity and autoplan flag as when the updates succeed, and
\* from a log history that differs only by one warning per failed update.
C8_FailureStep ==
    StatusUpdateFailed =>
        /\ pc' = IF pc = "pending" THEN "build" ELSE "render"
        /\ history' = Append(IF pc = "pending" THEN history
                                                ELSE history \o HistoryOnSuccess,
                             StatusWarning)
        /\ UNCHANGED <<c, entry, baseRepo, headRepo, pull, cmd, projectCmds, results,
                       res, panicVal>>

C8_CommentDiffersByWarnings ==
    \A i \in 1..Len(ResultComments) :
        LET body == ResultComments[i].arg.body
        IN  /\ body.res = res
            /\ body.name = CommandName
            /\ body.verbose = IsVerbose
            /\ body.autoplan = IsAutoplan
            /\ SelectSeq(body.history, LAMBDA l : l # StatusWarning) = HistoryOnSuccess
            /\ Len(SelectSeq(body.history, LAMBDA l : l = StatusWarning))
                  = Cardinality(FailedStatusCalls)

C8_StatusFailureOnlyLogged ==
    []C8_CommentDiffersByWarnings /\ [][C8_FailureStep]_vars

C8_Witness ==
    /\ pc = "done"
    /\ \E i \in IndexOf("Update") : calls[i].out = "err"
    /\ \E i \in IndexOf("UpdateProjectResult") : calls[i].out = "err"
    /\ Len(RunnerCalls) = 1
    /\ Len(Comments) = 1
    /\ Comments[1].arg.kind = "result"
    /\ Comments[1].arg.body.res.ProjectResults = results
    /\ Comments[1].arg.body.history = <<StatusWarning, StatusWarning>>

\* The requests that removed a lock by DELETE and are past the comment.
Deleted(r) ==
    /\ req[r].method = "DELETE"
    /\ req[r].lock # NoLock

CommentCalls(r) == SelectSeq(req[r].calls, LAMBDA k : k \in {"CreateComment:ok", "CreateComment:err"})

\* C9: a DELETE that removed a lock with a base repository always attempts the
\* comment, exactly once, and answers 500 when the comment failed and 200 when
\* it did not, whatever WorkingDirLocker.TryLock and DeleteForWorkspace returned.
C9_ResponseFollowsComment ==
    \A r \in Requests :
        (Deleted(r) /\ req[r].lock.Pull.BaseRepo # "" /\ req[r].pc \in {"return", "done"}) =>
            /\ Len(CommentCalls(r)) = 1
            /\ req[r].calls[Len(req[r].calls)] = CommentCalls(r)[1]
            /\ req[r].code = IF CommentCalls(r)[1] = "CreateComment:err" THEN 500 ELSE 200

C9_Witness ==
    \E r \in Requests :
        /\ Deleted(r)
        /\ req[r].pc = "done"
        /\ req[r].calls = <<"TryLock:err", "CreateComment:ok">>
        /\ req[r].code = 200

\* C10: a DELETE that removed a lock whose pull has no base repository answers
\* 200 at once, without calling TryLock, DeleteForWorkspace or CreateComment,
\* and the step changes nothing but the store, from which the lock is removed.
C10_LegacyLockAnswer ==
    \A r \in Requests :
        (Deleted(r) /\ req[r].lock.Pull.BaseRepo = "") =>
            /\ req[r].pc = "done"
            /\ req[r].code = 200
            /\ req[r].calls = <<>>
            /\ ~req[r].held

C10_LegacyLockStep ==
    \A r \in Requests :
        (req'[r] # req[r] /\ req'[r].method = "DELETE" /\ req'[r].lock # NoLock
            /\ req'[r].lock.Pull.BaseRepo = "") =>
            /\ req'[r].lock \in store
            /\ store' = store \ {req'[r].lock}
            /\ UNCHANGED <<wdLocks, workdirs>>

C10_LegacyLockOnlyUnlocks == []C10_LegacyLockAnswer /\ [][C10_LegacyLockStep]_vars

C10_Witness ==
    \E r \in Requests :
        /\ Deleted(r)
        /\ req[r].lock.Pull.BaseRepo = ""
        /\ req[r].code = 200
        /\ req[r].lock \notin store

\* The decoded id of a request, as the route decodes it: QueryUnescape for GET
\* (line 36), PathUnescape for DELETE (line 75).
Decoded(q) == Unescape(q.vars.id, q.method = "GET")

\* A request that just started and ran up to its Locker call: it carries a
\* decodable id (non-empty for DELETE) for which the store holds no lock.
AsksUnknownId(r) ==
    /\ req'[r] # req[r]
    /\ req[r].pc \in {"idle", "done"}
    /\ req'[r].vars.ok
    /\ req'[r].method = "DELETE" => req'[r].vars.id # <<>>
    /\ Decoded(req'[r]).ok
    /\ \A l \in store : l.id # Decoded(req'[r]).val

\* C11: a GET or DELETE whose id names no lock responds 404 (500 when the
\* Locker itself returned an error) and returns at once: the store, the
\* working-directory locks and the working directories are unchanged, and no
\* TryLock, DeleteForWorkspace or CreateComment call is made.  A 404 is
\* answered only in that case.
C11_NotFoundAnswer ==
    \A r \in Requests :
        req[r].code = 404 =>
            /\ req[r].pc = "done"
            /\ req[r].locker \in {<<"GetLock:nil">>, <<"Unlock:nil">>}
            /\ req[r].lock = NoLock
            /\ req[r].calls = <<>>
            /\ ~req[r].held

C11_NotFoundStep ==
    \A r \in Requests :
        AsksUnknownId(r) =>
            /\ req'[r].pc = "done"
            /\ req'[r].code = IF req'[r].locker[1] \in {"GetLock:err", "Unlock:err"}
                               THEN 500 ELSE 404
            /\ req'[r].calls = <<>>
            /\ UNCHANGED <<store, wdLocks, workdirs>>

C11_UnknownIdIs404 == []C11_NotFoundAnswer /\ [][C11_NotFoundStep]_vars

\* A DELETE for "a/2" answered 404 while the store holds the lock "a/1" and a
\* working directory exists.
C11_Witness ==
    \E r \in Requests :
        /\ req[r].method = "DELETE"
        /\ req[r].code = 404
        /\ req[r].vars.id = <<97, 37, 50, 70, 50>>
        /\ store = {Lock(1, 1, RepoFullName)}
        /\ workdirs # {}

\* C12: a GET or DELETE whose id fails percent-decoding responds 400 without
\* calling the Locker (neither GetLock nor Unlock), and the step leaves the
\* store, the working-directory locks and the working directories unchanged.
C12_MalformedAnswer ==
    \A r \in Requests :
        (req[r].pc # "idle" /\ req[r].vars.ok /\ ~Decoded(req[r]).ok) =>
            /\ req[r].pc = "done"
            /\ req[r].code = 400
            /\ req[r].locker = <<>>
            /\ req[r].calls = <<>>
            /\ req[r].lock = NoLock

C12_MalformedStep ==
    \A r \in Requests :
        (req'[r] # req[r] /\ req'[r].vars.ok /\ ~Decoded(req'[r]).ok) =>
            UNCHANGED <<store, wdLocks, workdirs>>

C12_MalformedIdIs400 == []C12_MalformedAnswer /\ [][C12_MalformedStep]_vars

\* Both routes answered 400 to "%zz" while the store holds a lock.
C12_Witness ==
    /\ store # {}
    /\ \E r1, r2 \in Requests :
        /\ req[r1].method = "GET"
        /\ req[r2].method = "DELETE"
        /\ \A r \in {r1, r2} :
             /\ req[r].vars = [ok |-> TRUE, id |-> <<37, 122, 122>>]
             /\ req[r].code = 400

\* The key of a lock is (repository, project path, workspace): the repository
\* and the workspace are fixed here, so the key is the project path, and the
\* lock id is derived from it.
HoldersOf(path) == {l \in store : l.id = LockId(path)}

\* C13: in every state reached by interleaving TryLock calls of different
\* pulls, UnlockByPull, and GET and DELETE requests (each DELETE calling
\* Unlock), the store holds at most one lock per key, and a TryLock by another
\* pull on a held key is refused, names the pull that holds the key and leaves
\* the store as it is.
C13_OneLockPerKey ==
    \A path \in Paths :
        /\ Cardinality(HoldersOf(path)) <= 1
        /\ \A l \in HoldersOf(path), num \in PullNums :
             num # l.Pull.Num =>
                LET out == LockerTryLock(store, path, num)
                IN  /\ ~out.acquired
                    /\ out.holder = l.Pull.Num
                    /\ out.store = store

\* A DELETE removed the lock of a pull and is still running when another pull
\* holds the same key: a TryLock of the first pull now conflicts.
C13_Witness ==
    \E r \in Requests :
        /\ Deleted(r)
        /\ req[r].pc = "return"
        /\ \E l \in store :
             /\ l.id = req[r].lock.id
             /\ l.Pull.Num # req[r].lock.Pull.Num
             /\ ~LockerTryLock(store, l.Path, req[r].lock.Pull.Num).acquired

\* The requests that hold a working-directory lock.
Holding == {r \in Requests : req[r].held}

\* A request called op with outcome out ("ok" or "err").
Made(r, op, out) == \E i \in 1..Len(req[r].calls) : req[r].calls[i] = op \o ":" \o out

\* C14: a DELETE that took the working-directory lock has released it when it
\* has returned, whether it answered 200 or 500 and whether DeleteForWorkspace
\* failed or not: a request that is done holds nothing, and every
\* working-directory lock that is held belongs to a request still running.
C14_HeldOnlyWhileRunning ==
    /\ \A r \in Requests :
         /\ req[r].pc = "done" => ~req[r].held
         /\ req[r].held => req[r].pc \in {"delete", "comment", "return"}
         /\ req[r].pc = "return" => req[r].held
    /\ wdLocks = {Triple(req[r].lock) : r \in Holding}

C14_ReleasedOnReturn ==
    \A r \in Requests :
        (req[r].held /\ req'[r].pc = "done") => Triple(req[r].lock) \notin wdLocks'

C14_WorkingDirLockReleased == []C14_HeldOnlyWhileRunning /\ [][C14_ReleasedOnReturn]_vars

\* A DELETE took the lock, failed to delete the directory, failed to comment,
\* answered 500 and returned: no working-directory lock is left.
C14_Witness ==
    \E r \in Requests :
        /\ req[r].pc = "done"
        /\ req[r].code = 500
        /\ req[r].calls = <<"TryLock:ok", "DeleteForWorkspace:err", "CreateComment:err">>
        /\ wdLocks = {}

\* C15: the working-directory lock is held only for the deletion of the
\* directory: a DELETE request that is about to call CreateComment, or has
\* called it, does not hold the lock.
C15_ReleasedBeforeComment ==
    \A r \in Requests :
        (req[r].pc = "comment" \/ CommentCalls(r) # <<>>) => ~req[r].held

\* The requests that are inside DeleteForWorkspace for triple t.
Deleting(t) == {r \in Requests : req[r].pc = "delete" /\ Triple(req[r].lock) = t}

\* C16: DeleteForWorkspace runs only in a request that holds the
\* working-directory lock of its triple, so that two requests, also when they
\* removed different logical locks, are never inside DeleteForWorkspace for
\* the same triple; a request whose TryLock was refused never calls it.
C16_DeleteOnlyUnderLock ==
    /\ \A r \in Requests :
         /\ req[r].pc = "delete" =>
               /\ req[r].held
               /\ Triple(req[r].lock) \in wdLocks
               /\ req[r].calls = <<"TryLock:ok">>
         /\ Made(r, "TryLock", "err") =>
               /\ req[r].pc # "delete"
               /\ ~Made(r, "DeleteForWorkspace", "ok")
               /\ ~Made(r, "DeleteForWorkspace", "err")
    /\ \A t \in Triples : Cardinality(Deleting(t)) <= 1

C16_DeleteStep ==
    \A r \in Requests :
        (Len(req'[r].calls) = Len(req[r].calls) + 1
            /\ req'[r].calls[Len(req'[r].calls)]
                   \in {"DeleteForWorkspace:ok", "DeleteForWorkspace:err"}) =>
            /\ req[r].held
            /\ Triple(req[r].lock) \in wdLocks
            /\ \A o \in Holding \ {r} : Triple(req[o].lock) # Triple(req[r].lock)

C16_DeletionsSerialized == []C16_DeleteOnlyUnderLock /\ [][C16_DeleteStep]_vars

\* Two requests removed the locks of two project paths of one pull, which
\* share a triple: one is inside DeleteForWorkspace, the other was refused
\* the working-directory lock.
C16_Witness ==
    \E r1, r2 \in Requests :
        /\ Deleted(r1) /\ Deleted(r2)
        /\ req[r1].lock.id # req[r2].lock.id
        /\ Triple(req[r1].lock) = Triple(req[r2].lock)
        /\ req[r1].pc = "delete"
        /\ req[r2].calls = <<"TryLock:err">>

PendingUpdates == IndexOf("Update")
FinalUpdates == IndexOf("UpdateProjectResult")
WorkCalls == {i \in 1..Len(calls) : calls[i].svc \in {"builder", "runner"}}
ResultCommentCalls ==
    {i \in 1..Len(calls) : calls[i].op = "CreateComment" /\ calls[i].arg.kind = "result"}

\* C17: within one invocation the pending Update is issued at most once and
\* before every builder and runner call; UpdateProjectResult is issued at most
\* once, after every runner call and before the result comment; and no pending
\* Update follows it.
C17_StatusMonotonic ==
    /\ Cardinality(PendingUpdates) <= 1
    /\ Cardinality(FinalUpdates) <= 1
    /\ \A i \in PendingUpdates :
         /\ calls[i].arg.state = "Pending"
         /\ \A j \in WorkCalls : i < j
         /\ \A j \in FinalUpdates : i < j
    /\ \A i \in FinalUpdates :
         /\ \A j \in 1..Len(calls) : calls[j].svc = "runner" => j < i
         /\ \A j \in ResultCommentCalls : i < j
    /\ ResultCommentCalls # {} => FinalUpdates # {}
    /\ (WorkCalls # {} \/ FinalUpdates # {}) => PendingUpdates # {}

\* An autoplan of two units ran to its result comment.
C17_Witness ==
    /\ pc = "done"
    /\ Cardinality(PendingUpdates) = 1
    /\ Cardinality(FinalUpdates) = 1
    /\ Len(RunnerCalls) = 2
    /\ ResultCommentCalls # {}

\* The calls that panicked after a pending Update had returned, in one of the
\* given collaborators.
PanicsAfterPending(svcs) ==
    {i \in 1..Len(calls) :
        /\ calls[i].out = "panic"
        /\ calls[i].svc \in svcs
        /\ \E j \in PendingUpdates : j < i /\ calls[j].out # "panic"}

\* The status calls that returned.
CompletedStatus == {i \in 1..Len(calls) : calls[i].svc = "status" /\ calls[i].out # "panic"}

Recovering == pc \in {"recover", "done", "escaped"}

\* C18, as stated: when the builder, the runner, the status updater or the
\* renderer panics after the pending status was posted, no final commit status
\* is issued in that invocation: the last status that was issued is pending.
C18_PanicLeavesPending ==
    (/\ Recovering
     /\ PanicsAfterPending({"builder", "runner", "status", "renderer"}) # {}
     /\ \A i \in CompletedStatus : calls[i].out = "ok") =>
        \A i \in CompletedStatus : calls[i].op = "Update"

\* C18, amended: after such a panic the recovery posts the panic comment and
\* issues no commit status update; when the panic was in the builder or the
\* runner no UpdateProjectResult call was made at all, and when it was in the
\* status updater none returned, so the last status that was issued is pending;
\* when it was in the renderer the final UpdateProjectResult had been issued
\* before the panic and is the last status.
C18_RecoveryIssuesNoStatus ==
    /\ \A i \in PanicsAfterPending({"builder", "runner", "status", "renderer"}) :
         /\ \A j \in 1..Len(calls) : calls[j].svc = "status" => j <= i
         /\ Terminal =>
               \E j \in (i + 1)..Len(calls) :
                  /\ calls[j].op = "CreateComment"
                  /\ calls[j].arg.kind = "panic"
                  /\ calls[j].arg.body.payload = calls[i].ret
    /\ PanicsAfterPending({"builder", "runner"}) # {} => FinalUpdates = {}
    /\ PanicsAfterPending({"builder", "runner", "status"}) # {} =>
         \A i \in CompletedStatus : calls[i].op = "Update"
    /\ \A i \in PanicsAfterPending({"renderer"}) :
         /\ CompletedStatus # {}
         /\ \A j \in CompletedStatus :
              (\A k \in CompletedStatus : k <= j) =>
                  calls[j].op = "UpdateProjectResult" /\ j < i

\* The runner panicked on the second unit after the pending status was posted,
\* and the invocation returned with the panic comment.
C18_Witness ==
    /\ pc = "done"
    /\ PanicsAfterPending({"runner"}) # {}
    /\ Len(RunnerCalls) = 2
    /\ FinalUpdates = {}
    /\ Len(PostedComments) = 1
    /\ PostedComments[1].arg.kind = "panic"

\* The step in which request r called Unlock and got a lock.
Unlocks(r) ==
    /\ req'[r] # req[r]
    /\ req[r].pc \in {"idle", "done"}
    /\ req'[r].locker = <<"Unlock:ok">>

\* The requests that removed the lock of the given id and have not returned.
CleaningUp(id) ==
    {r \in Requests : req[r].lock.id = id /\ req[r].pc \in {"wd", "delete", "comment", "return"}}

CleanupCalls(r) ==
    SelectSeq(req[r].calls, LAMBDA k : k \in {"DeleteForWorkspace:ok", "DeleteForWorkspace:err"})

\* C19: of the DELETE requests that race for one lock id, the one whose Unlock
\* finds the lock takes it out of the store in the same step, and it alone goes
\* on to the cleanup and the comment; a DELETE for that id made while the
\* winner is still cleaning up finds nothing and answers 404 (500 when the
\* Locker errs) without any cleanup or comment.  Each request calls
\* DeleteForWorkspace and CreateComment at most once, and only after its own
\* Unlock returned a lock.
C19_OneRemovalOneCleanup ==
    \A r \in Requests :
        /\ Len(CommentCalls(r)) <= 1
        /\ Len(CleanupCalls(r)) <= 1
        /\ req[r].calls # <<>> => req[r].locker = <<"Unlock:ok">> /\ req[r].lock # NoLock
        /\ req[r].locker = <<"Unlock:ok">> <=> (req[r].method = "DELETE" /\ req[r].lock # NoLock)

C19_WinnerStep ==
    \A r \in Requests :
        Unlocks(r) =>
            /\ req'[r].lock \in store
            /\ store' = store \ {req'[r].lock}
            /\ \A l \in store' : l.id # req'[r].lock.id
            /\ \A o \in Requests \ {r} : req'[o] = req[o]

C19_LoserStep ==
    \A r \in Requests :
        (/\ req'[r] # req[r]
         /\ req[r].pc \in {"idle", "done"}
         /\ req'[r].method = "DELETE"
         /\ req'[r].vars.ok
         /\ Decoded(req'[r]).ok
         /\ CleaningUp(Decoded(req'[r]).val) # {}
         /\ \A l \in store : l.id # Decoded(req'[r]).val) =>
            /\ req'[r].pc = "done"
            /\ req'[r].lock = NoLock
            /\ req'[r].calls = <<>>
            /\ req'[r].code = IF req'[r].locker = <<"Unlock:err">> THEN 500 ELSE 404
            /\ UNCHANGED <<store, wdLocks, workdirs>>

C19_OneWinnerPerRemoval ==
    /\ []C19_OneRemovalOneCleanup
    /\ [][C19_WinnerStep]_vars
    /\ [][C19_LoserStep]_vars

\* Two DELETE requests for "a%2F1": one removed the lock and is about to
\* comment after the cleanup, the other was answered 404.
C19_Witness ==
    \E r1, r2 \in Requests :
        /\ r1 # r2
        /\ req[r1].vars = req[r2].vars
        /\ req[r1].method = "DELETE" /\ req[r2].method = "DELETE"
        /\ req[r1].pc = "comment"
        /\ Len(CleanupCalls(r1)) = 1
        /\ req[r2].code = 404
        /\ \A l \in store : l.id # req[r1].lock.id

\* The requests that removed a lock and answered 500 because the comment failed.
CommentFailed(r) ==
    /\ Deleted(r)
    /\ req[r].code = 500
    /\ CommentCalls(r) = <<"CreateComment:err">>

\* C20: the 500 answered for a failed comment does not undo the removal.  The
\* step that fails the comment leaves the store as it is, no step of a request
\* ever puts a lock into the store (only a TryLock does), and as long as no
\* pull took the key again the id names no lock, so that a GET or DELETE for
\* it finds nothing and a TryLock of any pull, another one included, is granted.
C20_KeyFreeAfterFailedComment ==
    \A r \in Requests :
        (CommentFailed(r) /\ HoldersOf(req[r].lock.Path) = {}) =>
            /\ req[r].lock \notin store
            /\ \A l \in store : l.id # PathUnescape(req[r].vars.id).val
            /\ \A l \in store : l.id # QueryUnescape(req[r].vars.id).val
            /\ \A num \in PullNums :
                 LET out == LockerTryLock(store, req[r].lock.Path, num)
                 IN  /\ out.acquired
                     /\ out.holder = num
                     /\ out.store = store \cup {Lock(req[r].lock.Path, num, RepoFullName)}

C20_CommentFailureStep ==
    \A r \in Requests :
        (req[r].pc = "comment" /\ req'[r].code = 500) =>
            /\ store' = store
            /\ req'[r].lock = req[r].lock

C20_OnlyTryLockAdds ==
    (store' \ store # {}) => req' = req

C20_RemovalNotRolledBack ==
    /\ []C20_KeyFreeAfterFailedComment
    /\ [][C20_CommentFailureStep]_vars
    /\ [][C20_OnlyTryLockAdds]_vars

\* A DELETE answered 500 for a lock of one pull, a second DELETE for the same
\* id was answered 404, and another pull then took the key.
C20_Witness ==
    \E r1, r2 \in Requests :
        /\ CommentFailed(r1)
        /\ req[r1].pc = "done"
        /\ req[r2].method = "DELETE"
        /\ req[r2].vars = req[r1].vars
        /\ req[r2].code = 404
        /\ \E l \in store :
             /\ l.id = req[r1].lock.id
             /\ l.Pull.Num # req[r1].lock.Pull.Num
====
